---- MODULE Spec2Model ----
(***************************************************************************)
(* StoreFlow point of sale: the sale session of NewSalePage (catalog       *)
(* loader, cart manager, discount calculator, transaction submitter).      *)
(*                                                                         *)
(* Money is in whole baht.  Every price and every discount percentage of   *)
(* the modelled catalog is a multiple of ten, so subtotal * P is always a  *)
(* multiple of 100 and the integer division below is the exact value of    *)
(* the floating point expression of the source (see PercentIsExact).       *)
(***************************************************************************)
EXTENDS Integers, Sequences, FiniteSets, TLC

VARIABLES profile, products, customers, cart, selectedCustomer,
          paymentMethod, loading, saving, sub, fetches, custFetches, toast,
          last, db, other

vars == <<profile, products, customers, cart, selectedCustomer,
          paymentMethod, loading, saving, sub, fetches, custFetches, toast,
          last, db, other>>

-----------------------------------------------------------------------------
(* Bounds of the model *)

\* largest stock count a backend product row holds
MaxStock == 2

\* largest number of overlapping, unanswered product (or customer) queries
MaxInflight == 1

\* the in-memory stock is not driven below -MaxOversell
MaxOversell == 1

\* most clicks handled while one submission awaits its inserts
MaxFlightEvents == 1

\* most rows of the sales table where two submissions are followed
MaxSales == 2

\* most rows of the sales table where one submission is followed
MaxLedger == 1

\* most unanswered product (or customer) queries where queries overlap
MaxOverlap == 2

-----------------------------------------------------------------------------
(* Backend rows: the products and customers tables *)

ProductIds == {"A", "B"}

\* .order("name")
ProductOrder == <<"A", "B">>

ProductRow(id, stock) ==
    IF id = "A"
    THEN [id |-> "A", store_id |-> "s1", selling_price |-> 100,
          buying_price |-> 60, stock |-> stock]
    ELSE [id |-> "B", store_id |-> "s2", selling_price |-> 50,
          buying_price |-> 70, stock |-> stock]

NoCustomer ==
    [id |-> "none", store_id |-> "none", discount_type |-> "none",
     discount_percentage |-> 0, discount_fixed_amount |-> 0]

CustomerRows ==
    << [id |-> "c1", store_id |-> "s1", discount_type |-> "percentage",
        discount_percentage |-> 10, discount_fixed_amount |-> 0],
       [id |-> "c2", store_id |-> "s2", discount_type |-> "fixed",
        discount_percentage |-> 0, discount_fixed_amount |-> 250] >>

(* The operator of the session: not yet loaded, an owner, a receptionist *)
NoProfile == [id |-> "none", role |-> "none", store_id |-> "none"]
OwnerProfile == [id |-> "u1", role |-> "owner", store_id |-> "none"]
ReceptionistProfile == [id |-> "u2", role |-> "receptionist", store_id |-> "s1"]

Profiles == {OwnerProfile, ReceptionistProfile}

-----------------------------------------------------------------------------
(* Helpers on sequences *)

Min(a, b) == IF a <= b THEN a ELSE b

RECURSIVE SumSeq(_)
SumSeq(s) == IF s = <<>> THEN 0 ELSE Head(s) + SumSeq(Tail(s))

\* Array.prototype.find: the first element satisfying the test
FindIndex(s, id) ==
    IF \E i \in DOMAIN s : s[i].id = id
    THEN CHOOSE i \in DOMAIN s :
            s[i].id = id /\ \A j \in 1..(i - 1) : s[j].id # id
    ELSE 0

Toast(type, msg, arg) == [type |-> type, msg |-> msg, arg |-> arg]

-----------------------------------------------------------------------------
(* Catalog loader *)

\* the store filter a fetchProducts / fetchCustomers closure applies
StoreFilter(p) ==
    IF p.role = "receptionist" /\ p.store_id # "none" THEN p.store_id ELSE "all"

\* products with stock > 0, optionally of one store, ordered by name
ProductQuery(filter, stock) ==
    LET keep(r) == r.stock > 0 /\ (filter = "all" \/ r.store_id = filter)
        all == [i \in DOMAIN ProductOrder |->
                   ProductRow(ProductOrder[i], stock[ProductOrder[i]])]
    IN SelectSeq(all, keep)

CustomerQuery(filter) ==
    LET keep(r) == filter = "all" \/ r.store_id = filter
    IN SelectSeq(CustomerRows, keep)

-----------------------------------------------------------------------------
(* Cart manager: the state updaters passed to setCart *)

CartItemOf(product) ==
    [id |-> product.id, store_id |-> product.store_id,
     selling_price |-> product.selling_price,
     buying_price |-> product.buying_price,
     stock |-> product.stock, quantity |-> 1]

WithQuantity(item, q) == [item EXCEPT !.quantity = q]

\* the units of a product the stored sale_items rows add up to
SoldInBackend(id) ==
    SumSeq([k \in DOMAIN db.sale_items |->
              IF db.sale_items[k].product_id = id
              THEN db.sale_items[k].quantity ELSE 0])

\* addToCart refusing a product whose stock the stored sales have used up
addToCart_SeesSales(prev, product) ==
    LET e == FindIndex(prev, product.id)
    IN IF SoldInBackend(product.id) >= product.stock
       THEN [cart |-> prev,
             toast |-> << Toast("error", "only_units", product.stock) >>]
       ELSE IF e # 0
       THEN IF prev[e].quantity >= product.stock
            THEN [cart |-> prev,
                  toast |-> << Toast("error", "only_units", product.stock) >>]
            ELSE [cart |-> [i \in DOMAIN prev |->
                              IF prev[i].id = product.id
                              THEN WithQuantity(prev[i], prev[i].quantity + 1)
                              ELSE prev[i]],
                  toast |-> << >>]
       ELSE [cart |-> Append(prev, CartItemOf(product)), toast |-> << >>]

\* addToCart putting a new line in front of the cart
addToCart_Prepends(prev, product) ==
    LET e == FindIndex(prev, product.id)
    IN IF e # 0
       THEN IF prev[e].quantity >= product.stock
            THEN [cart |-> prev,
                  toast |-> << Toast("error", "only_units", product.stock) >>]
            ELSE [cart |-> [i \in DOMAIN prev |->
                              IF prev[i].id = product.id
                              THEN WithQuantity(prev[i], prev[i].quantity + 1)
                              ELSE prev[i]],
                  toast |-> << >>]
       ELSE [cart |-> << CartItemOf(product) >> \o prev, toast |-> << >>]

\* addToCart testing quantity > stock instead of >=
addToCart_OffByOne(prev, product) ==
    LET e == FindIndex(prev, product.id)
    IN IF e # 0
       THEN IF prev[e].quantity > product.stock
            THEN [cart |-> prev,
                  toast |-> << Toast("error", "only_units", product.stock) >>]
            ELSE [cart |-> [i \in DOMAIN prev |->
                              IF prev[i].id = product.id
                              THEN WithQuantity(prev[i], prev[i].quantity + 1)
                              ELSE prev[i]],
                  toast |-> << >>]
       ELSE [cart |-> Append(prev, CartItemOf(product)), toast |-> << >>]

\* addToCart appending a line whether or not the product has one
addToCart_AlwaysAppends(prev, product) ==
    [cart |-> Append(prev, CartItemOf(product)), toast |-> << >>]

\* addToCart: the updater and the notifications it raises
addToCart(prev, product) ==
    LET e == FindIndex(prev, product.id)
    IN IF e # 0
       THEN IF prev[e].quantity >= product.stock
            THEN [cart |-> prev,
                  toast |-> << Toast("error", "only_units", product.stock) >>]
            ELSE [cart |-> [i \in DOMAIN prev |->
                              IF prev[i].id = product.id
                              THEN WithQuantity(prev[i], prev[i].quantity + 1)
                              ELSE prev[i]],
                  toast |-> << >>]
       ELSE [cart |-> Append(prev, CartItemOf(product)), toast |-> << >>]

\* removeFromCart
removeFromCart(prev, productId) ==
    LET keep(item) == item.id # productId
    IN SelectSeq(prev, keep)

\* the null the .map callback returns for a line to drop
NullItem(item) == [item EXCEPT !.id = "null"]

\* the callback without its stock test
updateItem_NoStockCheck(item, productId, change) ==
    IF item.id = productId
    THEN LET newQuantity == item.quantity + change
         IN IF newQuantity <= 0 THEN NullItem(item)
            ELSE WithQuantity(item, newQuantity)
    ELSE item

\* the callback dropping a line only below zero
updateItem_KeepsZero(item, productId, change) ==
    IF item.id = productId
    THEN LET newQuantity == item.quantity + change
         IN IF newQuantity < 0 THEN NullItem(item)
            ELSE IF newQuantity > item.stock THEN item
            ELSE WithQuantity(item, newQuantity)
    ELSE item

\* the .map callback of updateQuantity
updateItem(item, productId, change) ==
    IF item.id = productId
    THEN LET newQuantity == item.quantity + change
         IN IF newQuantity <= 0 THEN NullItem(item)
            ELSE IF newQuantity > item.stock THEN item
            ELSE WithQuantity(item, newQuantity)
    ELSE item

\* updateQuantity: map, then filter out the nulls
updateQuantity(prev, productId, change) ==
    LET mapped == [i \in DOMAIN prev |-> updateItem(prev[i], productId, change)]
        keep(item) == item.id # "null"
        rejected(item) == /\ item.id = productId
                          /\ item.quantity + change > 0
                          /\ item.quantity + change > item.stock
        errs == SelectSeq(prev, rejected)
    IN [cart |-> SelectSeq(mapped, keep),
        toast |-> [i \in DOMAIN errs |->
                      Toast("error", "only_units", errs[i].stock)]]

-----------------------------------------------------------------------------
(* Discount calculator *)

calculateSubtotal(c) ==
    SumSeq([i \in DOMAIN c |-> c[i].selling_price * c[i].quantity])

\* the fixed amount returned without Math.min
calculateDiscount_Uncapped(c, customer) ==
    IF customer = NoCustomer THEN 0
    ELSE LET subtotal == calculateSubtotal(c)
         IN IF customer.discount_type = "percentage"
            THEN (subtotal * customer.discount_percentage) \div 100
            ELSE customer.discount_fixed_amount

\* Math.max in place of Math.min
calculateDiscount_Max(c, customer) ==
    IF customer = NoCustomer THEN 0
    ELSE LET subtotal == calculateSubtotal(c)
         IN IF customer.discount_type = "percentage"
            THEN (subtotal * customer.discount_percentage) \div 100
            ELSE IF customer.discount_fixed_amount >= subtotal
                 THEN customer.discount_fixed_amount ELSE subtotal

\* the two discount modes swapped
calculateDiscount_SwappedModes(c, customer) ==
    IF customer = NoCustomer THEN 0
    ELSE LET subtotal == calculateSubtotal(c)
         IN IF customer.discount_type = "fixed"
            THEN (subtotal * customer.discount_percentage) \div 100
            ELSE Min(customer.discount_fixed_amount, subtotal)

calculateDiscount(c, customer) ==
    IF customer = NoCustomer THEN 0
    ELSE LET subtotal == calculateSubtotal(c)
         IN IF customer.discount_type = "percentage"
            THEN (subtotal * customer.discount_percentage) \div 100
            ELSE Min(customer.discount_fixed_amount, subtotal)

calculateTotal(c, customer) ==
    calculateSubtotal(c) - calculateDiscount(c, customer)

\* the profit clamped at zero
calculateProfit_Clamped(c, customer) ==
    LET subtotal ==
          SumSeq([i \in DOMAIN c |->
                    (c[i].selling_price - c[i].buying_price) * c[i].quantity])
        profit == subtotal - calculateDiscount(c, customer)
    IN IF profit < 0 THEN 0 ELSE profit

calculateProfit(c, customer) ==
    LET subtotal ==
          SumSeq([i \in DOMAIN c |->
                    (c[i].selling_price - c[i].buying_price) * c[i].quantity])
    IN subtotal - calculateDiscount(c, customer)

totalItems(c) == SumSeq([i \in DOMAIN c |-> c[i].quantity])

-----------------------------------------------------------------------------
(* The session: state after the first render of NewSalePage.  The mount    *)
(* effect has issued fetchProducts and fetchCustomers; the profile may or  *)
(* may not have been loaded by AuthProvider yet.                           *)

IdleSub ==
    [pc |-> "idle", cart |-> << >>, customer |-> NoCustomer,
     payment |-> "cash", profile |-> NoProfile, storeId |-> "none",
     products |-> << >>, events |-> 0, saleId |-> 0]

\* the backend tables the submitter writes: sales and sale_items
EmptyDb == [sales |-> << >>, sale_items |-> << >>]

\* no second browser tab is open
NoTab == [open |-> FALSE]

\* stock counts the backend may hold: product B is the scarcer one
BackendStocks ==
    {f \in [ProductIds -> 0..MaxStock] : f["B"] <= MaxStock - 1}

Init ==
    /\ profile \in {NoProfile} \cup Profiles
    /\ products = << >>
    /\ customers = << >>
    /\ cart = << >>
    /\ selectedCustomer = NoCustomer
    /\ paymentMethod = "cash"
    /\ loading = TRUE
    /\ saving = FALSE
    /\ sub = IdleSub
    /\ fetches = << StoreFilter(profile) >>
    /\ custFetches = << StoreFilter(profile) >>
    /\ toast = << >>
    /\ last = "mount"
    /\ db = EmptyDb
    /\ other = NoTab

RemoveAt(s, i) == SubSeq(s, 1, i - 1) \o SubSeq(s, i + 1, Len(s))

(* AuthProvider finishes its background load: setProfile(data).  The role  *)
(* and store_id change, so fetchProducts and fetchCustomers are rebuilt    *)
(* and the effect issues both queries again.                               *)
ProfileArrives(p, inflight) ==
    /\ last' = "profileLoaded"
    /\ profile = NoProfile
    /\ Len(fetches) < inflight
    /\ Len(custFetches) < inflight
    /\ profile' = p
    /\ loading' = TRUE
    /\ fetches' = Append(fetches, StoreFilter(p))
    /\ custFetches' = Append(custFetches, StoreFilter(p))
    /\ toast' = << >>
    /\ UNCHANGED <<db, other>>
    /\ UNCHANGED <<products, customers, cart, selectedCustomer, paymentMethod,
                   saving, sub>>

\* the profile arrives once the queries of the mount effect have returned
ProfileLoaded(p) == ProfileArrives(p, MaxInflight)

\* the profile arrives while the queries of the mount effect are awaited
ProfileLoadedEarly(p) == ProfileArrives(p, MaxOverlap)

(* fetchProducts: the awaited query returns rows.  The stock counts are    *)
(* the backend's, which other sessions (other tabs, other operators,       *)
(* purchases) change at any time: any counts may come back.                *)
FetchProductsOk(i, stock) ==
    /\ last' = "fetchProductsOk"
    /\ i \in DOMAIN fetches
    /\ products' = ProductQuery(fetches[i], stock)
    /\ loading' = FALSE
    /\ fetches' = RemoveAt(fetches, i)
    /\ toast' = << >>
    /\ UNCHANGED <<db, other>>
    /\ UNCHANGED <<profile, customers, cart, selectedCustomer, paymentMethod,
                   saving, sub, custFetches>>

(* fetchProducts: the awaited query returns an error *)
FetchProductsError(i) ==
    /\ last' = "fetchProductsError"
    /\ i \in DOMAIN fetches
    /\ loading' = FALSE
    /\ fetches' = RemoveAt(fetches, i)
    /\ toast' = << Toast("error", "failed_to_load_products", 0) >>
    /\ UNCHANGED <<db, other>>
    /\ UNCHANGED <<profile, products, customers, cart, selectedCustomer,
                   paymentMethod, saving, sub, custFetches>>

(* fetchCustomers *)
FetchCustomersOk(i) ==
    /\ last' = "fetchCustomersOk"
    /\ i \in DOMAIN custFetches
    /\ customers' = CustomerQuery(custFetches[i])
    /\ custFetches' = RemoveAt(custFetches, i)
    /\ toast' = << >>
    /\ UNCHANGED <<db, other>>
    /\ UNCHANGED <<profile, products, cart, selectedCustomer, paymentMethod,
                   loading, saving, sub, fetches>>

FetchCustomersError(i) ==
    /\ last' = "fetchCustomersError"
    /\ i \in DOMAIN custFetches
    /\ custFetches' = RemoveAt(custFetches, i)
    /\ toast' = << >>
    /\ UNCHANGED <<db, other>>
    /\ UNCHANGED <<profile, products, customers, cart, selectedCustomer,
                   paymentMethod, loading, saving, sub, fetches>>

-----------------------------------------------------------------------------
\* a click handled while the two inserts of a submission are awaited
FlightEvent ==
    IF sub.pc = "idle" THEN UNCHANGED sub
    ELSE sub.events < MaxFlightEvents /\ sub' = [sub EXCEPT !.events = @ + 1]

(* Cart events.  The product grid is rendered only while loading is false; *)
(* the cart panel is always rendered.                                      *)

AddToCart(i) ==
    /\ last' = "addToCart"
    /\ FlightEvent
    /\ ~loading
    /\ i \in DOMAIN products
    /\ LET r == addToCart(cart, products[i])
       IN /\ cart' = r.cart
          /\ toast' = Append(r.toast, Toast("success", "added_to_cart", 0))
    /\ UNCHANGED <<db, other>>
    /\ UNCHANGED <<profile, products, customers, selectedCustomer,
                   paymentMethod, loading, saving, fetches, custFetches>>

RemoveFromCart(i) ==
    /\ last' = "removeFromCart"
    /\ FlightEvent
    /\ i \in DOMAIN cart
    /\ cart' = removeFromCart(cart, cart[i].id)
    /\ toast' = << Toast("info", "item_removed", 0) >>
    /\ UNCHANGED <<db, other>>
    /\ UNCHANGED <<profile, products, customers, selectedCustomer,
                   paymentMethod, loading, saving, fetches, custFetches>>

\* what an updateQuantity call did, from the updater's result
UpdateOutcome(prev, r) ==
    IF Len(r.cart) < Len(prev) THEN "updateQuantity_removed"
    ELSE IF r.toast # << >> THEN "updateQuantity_rejected"
    ELSE "updateQuantity_changed"

\* the minus button of a cart line
DecrementQuantity(i) ==
    /\ FlightEvent
    /\ i \in DOMAIN cart
    /\ LET r == updateQuantity(cart, cart[i].id, -1)
       IN cart' = r.cart /\ toast' = r.toast /\ last' = UpdateOutcome(cart, r)
    /\ UNCHANGED <<db, other>>
    /\ UNCHANGED <<profile, products, customers, selectedCustomer,
                   paymentMethod, loading, saving, fetches, custFetches>>

\* the plus button of a cart line, disabled={item.quantity >= item.stock}
IncrementQuantity(i) ==
    /\ FlightEvent
    /\ i \in DOMAIN cart
    /\ ~(cart[i].quantity >= cart[i].stock)
    /\ LET r == updateQuantity(cart, cart[i].id, 1)
       IN cart' = r.cart /\ toast' = r.toast /\ last' = UpdateOutcome(cart, r)
    /\ UNCHANGED <<db, other>>
    /\ UNCHANGED <<profile, products, customers, selectedCustomer,
                   paymentMethod, loading, saving, fetches, custFetches>>

\* a customer of the search list is clicked (shown while none is selected)
SelectCustomer(i) ==
    /\ last' = "selectCustomer"
    /\ FlightEvent
    /\ selectedCustomer = NoCustomer
    /\ i \in DOMAIN customers
    /\ selectedCustomer' = customers[i]
    /\ toast' = << >>
    /\ UNCHANGED <<db, other>>
    /\ UNCHANGED <<profile, products, customers, cart, paymentMethod, loading,
                   saving, fetches, custFetches>>

ClearCustomer ==
    /\ last' = "clearCustomer"
    /\ FlightEvent
    /\ selectedCustomer # NoCustomer
    /\ selectedCustomer' = NoCustomer
    /\ toast' = << >>
    /\ UNCHANGED <<db, other>>
    /\ UNCHANGED <<profile, products, customers, cart, paymentMethod, loading,
                   saving, fetches, custFetches>>

\* the payment select, rendered while the cart is not empty
SetPaymentMethod(m) ==
    /\ last' = "setPaymentMethod"
    /\ FlightEvent
    /\ cart # << >>
    /\ paymentMethod # m
    /\ paymentMethod' = m
    /\ toast' = << >>
    /\ UNCHANGED <<db, other>>
    /\ UNCHANGED <<profile, products, customers, cart, selectedCustomer,
                   loading, saving, fetches, custFetches>>

-----------------------------------------------------------------------------
(* Transaction submitter: handleCompleteSale.  The handler runs with the   *)
(* cart, customer, payment method, profile and fetchProducts of the render *)
(* in which the button was clicked; sub holds that closure while the two   *)
(* inserts are awaited.  sub.products is not part of the closure: under    *)
(* TrackedSpec it records the product list at the click, for the property  *)
(* that compares the list after the sale with it.                          *)

\* the owner's store id taken from the last cart line
ResolveStoreId_LastLine(p, c) ==
    IF p.role = "owner" THEN c[Len(c)].store_id ELSE p.store_id

\* let storeId = profile?.store_id; if owner, the store of the first line
ResolveStoreId(p, c) ==
    IF p.role = "owner" THEN c[1].store_id ELSE p.store_id

\* the optimistic update taking one unit per sold product
optimisticUpdate_ByOne(prevProducts, soldCart) ==
    [i \in DOMAIN prevProducts |->
        LET soldItem == FindIndex(soldCart, prevProducts[i].id)
        IN IF soldItem # 0
           THEN [prevProducts[i] EXCEPT !.stock = prevProducts[i].stock - 1]
           ELSE prevProducts[i]]

\* the optimistic update passed to setProducts
optimisticUpdate(prevProducts, soldCart) ==
    [i \in DOMAIN prevProducts |->
        LET soldItem == FindIndex(soldCart, prevProducts[i].id)
        IN IF soldItem # 0
           THEN [prevProducts[i] EXCEPT
                    !.stock = prevProducts[i].stock - soldCart[soldItem].quantity]
           ELSE prevProducts[i]]

\* handleCompleteSale without its if (!storeId) return
handleCompleteSale_NoStoreCheck(atClick) ==
    /\ IF cart = << >>
       THEN /\ last' = "completeSale_emptyCart"
            /\ toast' = << Toast("error", "cart_is_empty", 0) >>
            /\ UNCHANGED <<saving, sub>>
       ELSE /\ last' = "completeSale"
            /\ saving' = TRUE
            /\ sub' = [pc |-> "awaitSale", cart |-> cart,
                       customer |-> selectedCustomer,
                       payment |-> paymentMethod, profile |-> profile,
                       storeId |-> ResolveStoreId(profile, cart),
                       products |-> atClick, events |-> 0, saleId |-> 0]
            /\ toast' = << >>
    /\ UNCHANGED <<db, other>>
    /\ UNCHANGED <<profile, products, customers, cart, selectedCustomer,
                   paymentMethod, loading, fetches, custFetches>>

\* handleCompleteSale up to its first await; atClick is what sub.products
\* records.  The two early returns issue no query; the second one runs
\* setSaving(true) and, in finally, setSaving(false) within the one call.
handleCompleteSale(atClick) ==
    /\ IF cart = << >>
       THEN /\ last' = "completeSale_emptyCart"
            /\ toast' = << Toast("error", "cart_is_empty", 0) >>
            /\ UNCHANGED <<saving, sub>>
       ELSE LET storeId == ResolveStoreId(profile, cart)
            IN IF storeId = "none"
               THEN /\ last' = "completeSale_noStore"
                    /\ toast' = << Toast("error", "store_not_found", 0) >>
                    /\ UNCHANGED <<saving, sub>>
               ELSE /\ last' = "completeSale"
                    /\ saving' = TRUE
                    /\ sub' = [pc |-> "awaitSale", cart |-> cart,
                               customer |-> selectedCustomer,
                               payment |-> paymentMethod, profile |-> profile,
                               storeId |-> storeId, products |-> atClick,
                               events |-> 0, saleId |-> 0]
                    /\ toast' = << >>
    /\ UNCHANGED <<db, other>>
    /\ UNCHANGED <<profile, products, customers, cart, selectedCustomer,
                   paymentMethod, loading, fetches, custFetches>>

\* the Complete Sale button left enabled while saving
StartSale_NoSavingGuard(atClick) ==
    /\ cart # << >>
    /\ handleCompleteSale(atClick)

\* the Complete Sale button, disabled={saving || cart.length === 0}
StartSale(atClick) ==
    /\ ~saving
    /\ cart # << >>
    /\ handleCompleteSale(atClick)

CompleteSale == StartSale(<< >>)

\* handleCompleteSale called on any cart, the empty one included, while no
\* submission is under way
CompleteSaleCall ==
    /\ ~saving
    /\ handleCompleteSale(<< >>)

\* the same click, the product list at the click recorded
CompleteSaleTracked == StartSale(products)

\* the inserted object with the pre-discount amount as total_amount
SaleRow_TotalBeforeDiscount(s) ==
    [store_id |-> s.storeId,
     total_amount |-> calculateSubtotal(s.cart),
     profit |-> calculateProfit(s.cart, s.customer),
     payment_method |-> s.payment,
     sold_by |-> s.profile.id,
     customer_id |-> IF s.customer = NoCustomer THEN "null" ELSE s.customer.id,
     discount_amount |-> calculateDiscount(s.cart, s.customer),
     original_amount |-> calculateSubtotal(s.cart)]

\* the object passed to .from("sales").insert(...)
SaleRow(s) ==
    [store_id |-> s.storeId,
     total_amount |-> calculateTotal(s.cart, s.customer),
     profit |-> calculateProfit(s.cart, s.customer),
     payment_method |-> s.payment,
     sold_by |-> s.profile.id,
     customer_id |-> IF s.customer = NoCustomer THEN "null" ELSE s.customer.id,
     discount_amount |-> calculateDiscount(s.cart, s.customer),
     original_amount |-> calculateSubtotal(s.cart)]

\* the stored row: id UUID DEFAULT gen_random_uuid(), a fresh id per row
StoredSale(id, row) ==
    [id |-> id, store_id |-> row.store_id, total_amount |-> row.total_amount,
     profit |-> row.profit, payment_method |-> row.payment_method,
     sold_by |-> row.sold_by, customer_id |-> row.customer_id,
     discount_amount |-> row.discount_amount,
     original_amount |-> row.original_amount]

\* the mapped rows with the unit margin as line profit
SaleItemRows_UnitProfit(saleId, c) ==
    [i \in DOMAIN c |->
        [sale_id |-> saleId, product_id |-> c[i].id,
         quantity |-> c[i].quantity,
         price_at_sale |-> c[i].selling_price,
         cost_at_sale |-> c[i].buying_price,
         subtotal |-> c[i].selling_price * c[i].quantity,
         profit |-> c[i].selling_price - c[i].buying_price]]

\* the mapped rows with the unit price as line subtotal
SaleItemRows_UnitSubtotal(saleId, c) ==
    [i \in DOMAIN c |->
        [sale_id |-> saleId, product_id |-> c[i].id,
         quantity |-> c[i].quantity,
         price_at_sale |-> c[i].selling_price,
         cost_at_sale |-> c[i].buying_price,
         subtotal |-> c[i].selling_price,
         profit |-> (c[i].selling_price - c[i].buying_price) * c[i].quantity]]

\* const saleItems = cart.map(...)
SaleItemRows(saleId, c) ==
    [i \in DOMAIN c |->
        [sale_id |-> saleId, product_id |-> c[i].id,
         quantity |-> c[i].quantity,
         price_at_sale |-> c[i].selling_price,
         cost_at_sale |-> c[i].buying_price,
         subtotal |-> c[i].selling_price * c[i].quantity,
         profit |-> (c[i].selling_price - c[i].buying_price) * c[i].quantity]]

(* The session never reads the sales and sale_items tables back.  Spec   *)
(* and TrackedSpec therefore do not keep them (rows = 0, db stays        *)
(* empty); the other specifications keep the rows written, up to rows    *)
(* rows of the sales table.                                              *)

\* the optimistic update and the success notification moved before the
\* sale_items insert
SaleInserted_DecrementsEarly(rows) ==
    /\ last' = "saleInsertOk"
    /\ sub.pc = "awaitSale"
    /\ rows > 0 => Len(db.sales) < rows
    /\ LET saleData == StoredSale(Len(db.sales) + 1, SaleRow(sub))
       IN /\ sub' = [sub EXCEPT !.pc = "awaitItems", !.saleId = saleData.id]
          /\ db' = IF rows > 0 THEN [db EXCEPT !.sales = Append(@, saleData)]
                    ELSE db
    /\ products' = optimisticUpdate(products, sub.cart)
    /\ toast' = << Toast("success", "sale_completed",
                         calculateTotal(sub.cart, sub.customer)) >>
    /\ UNCHANGED other
    /\ UNCHANGED <<profile, customers, cart, selectedCustomer,
                   paymentMethod, loading, saving, fetches, custFetches>>

\* the sales insert returns the new row
SaleInserted(rows) ==
    /\ last' = "saleInsertOk"
    /\ sub.pc = "awaitSale"
    /\ rows > 0 => Len(db.sales) < rows
    /\ LET saleData == StoredSale(Len(db.sales) + 1, SaleRow(sub))
       IN /\ sub' = [sub EXCEPT !.pc = "awaitItems", !.saleId = saleData.id]
          /\ db' = IF rows > 0 THEN [db EXCEPT !.sales = Append(@, saleData)]
                    ELSE db
    /\ toast' = << >>
    /\ UNCHANGED other
    /\ UNCHANGED <<profile, products, customers, cart, selectedCustomer,
                   paymentMethod, loading, saving, fetches, custFetches>>

SaleInsertOk == SaleInserted(0)

SaleInsertOkLedger == SaleInserted(MaxLedger)

SaleInsertOkRetry == SaleInserted(MaxSales)

\* the handler without its finally { setSaving(false) } on the catch path
SaleFailed_KeepsSaving ==
    /\ last' = "saleFailed"
    /\ Len(fetches) < MaxInflight
    /\ toast' = << Toast("error", "failed_to_complete_sale", 0) >>
    /\ loading' = TRUE
    /\ fetches' = Append(fetches, StoreFilter(sub.profile))
    /\ sub' = IdleSub
    /\ UNCHANGED <<db, other>>
    /\ UNCHANGED <<profile, products, customers, cart, selectedCustomer,
                   paymentMethod, custFetches, saving>>

\* the catch block deleting the sale row of the failed submission
SaleFailed_DeletesSale ==
    /\ last' = "saleFailed"
    /\ Len(fetches) < MaxInflight
    /\ toast' = << Toast("error", "failed_to_complete_sale", 0) >>
    /\ loading' = TRUE
    /\ fetches' = Append(fetches, StoreFilter(sub.profile))
    /\ saving' = FALSE
    /\ sub' = IdleSub
    /\ LET others(r) == r.id # sub.saleId
       IN db' = [db EXCEPT !.sales = SelectSeq(@, others)]
    /\ UNCHANGED other
    /\ UNCHANGED <<profile, products, customers, cart, selectedCustomer,
                   paymentMethod, custFetches>>

\* the catch block also emptying the cart and the customer selection
SaleFailed_ClearsCart ==
    /\ last' = "saleFailed"
    /\ Len(fetches) < MaxInflight
    /\ toast' = << Toast("error", "failed_to_complete_sale", 0) >>
    /\ loading' = TRUE
    /\ fetches' = Append(fetches, StoreFilter(sub.profile))
    /\ saving' = FALSE
    /\ sub' = IdleSub
    /\ cart' = << >>
    /\ selectedCustomer' = NoCustomer
    /\ UNCHANGED <<db, other>>
    /\ UNCHANGED <<profile, products, customers, paymentMethod, custFetches>>

\* catch: notify, fetchProducts() of the closure; finally: setSaving(false)
SaleFailed ==
    /\ last' = "saleFailed"
    /\ Len(fetches) < MaxInflight
    /\ toast' = << Toast("error", "failed_to_complete_sale", 0) >>
    /\ loading' = TRUE
    /\ fetches' = Append(fetches, StoreFilter(sub.profile))
    /\ saving' = FALSE
    /\ sub' = IdleSub
    /\ UNCHANGED <<db, other>>
    /\ UNCHANGED <<profile, products, customers, cart, selectedCustomer,
                   paymentMethod, custFetches>>

SaleInsertError ==
    /\ sub.pc = "awaitSale"
    /\ SaleFailed

SaleItemsInsertError ==
    /\ sub.pc = "awaitItems"
    /\ SaleFailed

\* the success path reading the cart of the latest render, not the cart of
\* the render in which the button was clicked
SaleItemsInserted_UsesLiveCart(rows) ==
    /\ last' = "saleCompleted"
    /\ sub.pc = "awaitItems"
    /\ db' = IF rows > 0
             THEN [db EXCEPT !.sale_items = @ \o SaleItemRows(sub.saleId, cart)]
             ELSE db
    /\ products' = optimisticUpdate(products, cart)
    /\ \A i \in DOMAIN products' : products'[i].stock >= -MaxOversell
    /\ toast' = << Toast("success", "sale_completed",
                         calculateTotal(sub.cart, sub.customer)) >>
    /\ cart' = << >>
    /\ selectedCustomer' = NoCustomer
    /\ paymentMethod' = "cash"
    /\ saving' = FALSE
    /\ sub' = IdleSub
    /\ UNCHANGED other
    /\ UNCHANGED <<profile, customers, loading, fetches, custFetches>>

\* the success path without setSelectedCustomer(null) and
\* setPaymentMethod("cash")
SaleItemsInserted_KeepsCustomer(rows) ==
    /\ last' = "saleCompleted"
    /\ sub.pc = "awaitItems"
    /\ db' = IF rows > 0
             THEN [db EXCEPT !.sale_items = @ \o SaleItemRows(sub.saleId, sub.cart)]
             ELSE db
    /\ products' = optimisticUpdate(products, sub.cart)
    /\ \A i \in DOMAIN products' : products'[i].stock >= -MaxOversell
    /\ toast' = << Toast("success", "sale_completed",
                         calculateTotal(sub.cart, sub.customer)) >>
    /\ cart' = << >>
    /\ saving' = FALSE
    /\ sub' = IdleSub
    /\ UNCHANGED other
    /\ UNCHANGED <<profile, customers, loading, fetches, custFetches,
                   selectedCustomer, paymentMethod>>

\* the sale_items insert succeeds: optimistic update, notification, reset
SaleItemsInserted(rows) ==
    /\ last' = "saleCompleted"
    /\ sub.pc = "awaitItems"
    /\ db' = IF rows > 0
             THEN [db EXCEPT !.sale_items = @ \o SaleItemRows(sub.saleId, sub.cart)]
             ELSE db
    /\ products' = optimisticUpdate(products, sub.cart)
    /\ \A i \in DOMAIN products' : products'[i].stock >= -MaxOversell
    /\ toast' = << Toast("success", "sale_completed",
                         calculateTotal(sub.cart, sub.customer)) >>
    /\ cart' = << >>
    /\ selectedCustomer' = NoCustomer
    /\ paymentMethod' = "cash"
    /\ saving' = FALSE
    /\ sub' = IdleSub
    /\ UNCHANGED other
    /\ UNCHANGED <<profile, customers, loading, fetches, custFetches>>

SaleItemsInsertOk == SaleItemsInserted(0)

SaleItemsInsertOkLedger == SaleItemsInserted(MaxLedger)

SaleItemsInsertOkRetry == SaleItemsInserted(MaxSales)

-----------------------------------------------------------------------------

\* "cash" | "card" | "other": no handler branches on the value, and "other"
\* is left out as a second non-default method
PaymentMethods == {"cash", "card"}

\* every step but the click on Complete Sale
OtherSteps ==
    \/ \E p \in Profiles : ProfileLoaded(p)
    \/ \E i \in 1..MaxInflight, stock \in BackendStocks :
          FetchProductsOk(i, stock)
    \/ \E i \in 1..MaxInflight : FetchProductsError(i)
    \/ \E i \in 1..MaxInflight : FetchCustomersOk(i)
    \/ \E i \in 1..MaxInflight : FetchCustomersError(i)
    \/ \E i \in 1..Len(products) : AddToCart(i)
    \/ \E i \in 1..Len(cart) : RemoveFromCart(i)
    \/ \E i \in 1..Len(cart) : DecrementQuantity(i)
    \/ \E i \in 1..Len(cart) : IncrementQuantity(i)
    \/ \E i \in 1..Len(customers) : SelectCustomer(i)
    \/ ClearCustomer
    \/ \E m \in PaymentMethods : SetPaymentMethod(m)
    \/ SaleInsertOk
    \/ SaleInsertError
    \/ SaleItemsInsertOk
    \/ SaleItemsInsertError

Next == CompleteSale \/ OtherSteps

Spec == Init /\ [][Next]_vars

\* the session with the product list at each click recorded
TrackedNext == CompleteSaleTracked \/ OtherSteps

TrackedSpec == Init /\ [][TrackedNext]_vars

TypeOK ==
    /\ loading \in BOOLEAN
    /\ saving \in BOOLEAN
    /\ sub.pc \in {"idle", "awaitSale", "awaitItems"}
    /\ Len(fetches) <= MaxInflight

-----------------------------------------------------------------------------
(* The handlers and the calculator on their own: the cart, the product     *)
(* list and the customer are drawn from bounded sets and the handlers are  *)
(* called directly, updateQuantity also where the plus button is disabled. *)

Percentages == {0, 10, 50, 100}

FixedAmounts == {0, 30, 250}

AnyCustomers ==
    {[id |-> "c0", store_id |-> "s1", discount_type |-> t,
      discount_percentage |-> p, discount_fixed_amount |-> f] :
        t \in {"percentage", "fixed"}, p \in Percentages, f \in FixedAmounts}

\* the lines a cart can hold for one product
AnyLines(id) ==
    {WithQuantity(CartItemOf(ProductRow(id, sq[1])), sq[2]) :
        sq \in {x \in (0..MaxStock) \X (1..MaxStock) : x[2] <= x[1] \/ x[2] = 1}}

AnyCarts ==
    {<< >>}
      \cup {<<a>> : a \in AnyLines("A")}
      \cup {<<b>> : b \in AnyLines("B")}
      \cup {<<a, b>> : a \in AnyLines("A"), b \in AnyLines("B")}
      \cup {<<b, a>> : a \in AnyLines("A"), b \in AnyLines("B")}

AnyProducts ==
    {[i \in DOMAIN ProductOrder |-> ProductRow(ProductOrder[i], f[ProductOrder[i]])] :
        f \in [ProductIds -> 0..MaxStock]}

HandlerInit ==
    /\ profile = OwnerProfile
    /\ products \in AnyProducts
    /\ customers = << >>
    /\ cart \in AnyCarts
    /\ selectedCustomer \in {NoCustomer} \cup AnyCustomers
    /\ paymentMethod = "cash"
    /\ loading = FALSE
    /\ saving = FALSE
    /\ sub = IdleSub
    /\ fetches = << >>
    /\ custFetches = << >>
    /\ toast = << >>
    /\ last = "mount"
    /\ db = EmptyDb
    /\ other = NoTab

\* updateQuantity(productId, change) called on a cart line
UpdateQuantity(i, change) ==
    /\ FlightEvent
    /\ i \in DOMAIN cart
    /\ LET r == updateQuantity(cart, cart[i].id, change)
       IN cart' = r.cart /\ toast' = r.toast /\ last' = UpdateOutcome(cart, r)
    /\ UNCHANGED <<db, other>>
    /\ UNCHANGED <<profile, products, customers, selectedCustomer,
                   paymentMethod, loading, saving, fetches, custFetches>>

HandlerNext ==
    \/ \E i \in 1..Len(products) : AddToCart(i)
    \/ \E i \in 1..Len(cart) : RemoveFromCart(i)
    \/ \E i \in 1..Len(cart), change \in {-1, 1} : UpdateQuantity(i, change)
    \/ ClearCustomer

HandlerSpec == HandlerInit /\ [][HandlerNext]_vars

-----------------------------------------------------------------------------
(* The submitter with the backend tables kept.  The session starts after   *)
(* the loads of the mount effect have returned; handleCompleteSale is      *)
(* called on every cart, the empty one included.                           *)

LedgerInit ==
    /\ profile \in {NoProfile} \cup Profiles
    /\ \E stock \in BackendStocks :
          products = ProductQuery(StoreFilter(profile), stock)
    /\ customers = CustomerQuery(StoreFilter(profile))
    /\ cart = << >>
    /\ selectedCustomer = NoCustomer
    /\ paymentMethod = "cash"
    /\ loading = FALSE
    /\ saving = FALSE
    /\ sub = IdleSub
    /\ fetches = << >>
    /\ custFetches = << >>
    /\ toast = << >>
    /\ last = "mount"
    /\ db = EmptyDb
    /\ other = NoTab

LedgerNext ==
    \/ CompleteSaleCall
    \/ SaleInsertOkLedger
    \/ SaleInsertError
    \/ SaleItemsInsertOkLedger
    \/ SaleItemsInsertError
    \/ \E i \in 1..MaxInflight, stock \in BackendStocks :
          FetchProductsOk(i, stock)
    \/ \E i \in 1..MaxInflight : FetchProductsError(i)
    \/ \E i \in 1..Len(products) : AddToCart(i)
    \/ \E i \in 1..Len(cart) : IncrementQuantity(i)
    \/ \E i \in 1..Len(customers) : SelectCustomer(i)
    \/ \E m \in PaymentMethods : SetPaymentMethod(m)

LedgerSpec == LedgerInit /\ [][LedgerNext]_vars

(* A submission that fails and is attempted again by the operator: the    *)
(* submitter alone, two rows of the sales table kept.                     *)
RetryNext ==
    \/ \E i \in 1..Len(products) : AddToCart(i)
    \/ CompleteSale
    \/ SaleInsertOkRetry
    \/ SaleInsertError
    \/ SaleItemsInsertOkRetry
    \/ SaleItemsInsertError
    \/ \E i \in 1..MaxInflight, stock \in BackendStocks :
          FetchProductsOk(i, stock)
    \/ \E i \in 1..MaxInflight : FetchProductsError(i)

RetrySpec == LedgerInit /\ [][RetryNext]_vars

(* The submitter with every awaited promise settling: a query or an insert *)
(* awaited by a handler returns rows or an error after finitely many other *)
(* events (the fetch of the Supabase client resolves or rejects).         *)
LiveNext ==
    \/ \E i \in 1..Len(products) : AddToCart(i)
    \/ CompleteSaleCall
    \/ SaleInsertOk
    \/ SaleInsertError
    \/ SaleItemsInsertOk
    \/ SaleItemsInsertError
    \/ \E i \in 1..MaxInflight, stock \in BackendStocks :
          FetchProductsOk(i, stock)
    \/ \E i \in 1..MaxInflight : FetchProductsError(i)

\* an awaited products query returns
ProductsQuerySettles ==
    \/ \E i \in 1..MaxInflight, stock \in BackendStocks :
          FetchProductsOk(i, stock)
    \/ \E i \in 1..MaxInflight : FetchProductsError(i)

\* the awaited sales insert returns
SaleInsertSettles == SaleInsertOk \/ SaleInsertError

\* the awaited sale_items insert returns
SaleItemsInsertSettles == SaleItemsInsertOk \/ SaleItemsInsertError

LiveSpec ==
    /\ LedgerInit
    /\ [][LiveNext]_vars
    /\ WF_vars(ProductsQuerySettles)
    /\ WF_vars(SaleInsertSettles)
    /\ WF_vars(SaleItemsInsertSettles)

(* Overlapping catalog queries: the profile may arrive while the queries   *)
(* of the mount effect are still awaited, and the responses return in any  *)
(* order.  No query and no insert fails here.                              *)
RaceNext ==
    \/ \E p \in Profiles : ProfileLoadedEarly(p)
    \/ \E i \in 1..MaxOverlap, stock \in BackendStocks :
          FetchProductsOk(i, stock)
    \/ \E i \in 1..MaxOverlap : FetchCustomersOk(i)
    \/ \E i \in 1..Len(products) : AddToCart(i)
    \/ CompleteSale
    \/ SaleInsertOkLedger
    \/ SaleItemsInsertOkLedger

RaceSpec == Init /\ [][RaceNext]_vars

-----------------------------------------------------------------------------
(* Two browser tabs of one operator, each an instance of NewSalePage with  *)
(* its own React state, both writing to the one backend.  The variables    *)
(* hold the tab that handles the next event, other holds the second tab.   *)

ThisTab ==
    [open |-> TRUE, profile |-> profile, products |-> products,
     customers |-> customers, cart |-> cart,
     selectedCustomer |-> selectedCustomer, paymentMethod |-> paymentMethod,
     loading |-> loading, saving |-> saving, sub |-> sub, fetches |-> fetches,
     custFetches |-> custFetches, toast |-> toast]

\* the next event is one of the second tab
SwitchTab ==
    /\ last' = "switchTab"
    /\ other.open
    /\ other' = ThisTab
    /\ profile' = other.profile
    /\ products' = other.products
    /\ customers' = other.customers
    /\ cart' = other.cart
    /\ selectedCustomer' = other.selectedCustomer
    /\ paymentMethod' = other.paymentMethod
    /\ loading' = other.loading
    /\ saving' = other.saving
    /\ sub' = other.sub
    /\ fetches' = other.fetches
    /\ custFetches' = other.custFetches
    /\ toast' = other.toast
    /\ UNCHANGED db

\* both tabs have loaded the same catalog
TwoTabInit ==
    /\ profile = OwnerProfile
    /\ \E stock \in BackendStocks :
          products = ProductQuery(StoreFilter(profile), stock)
    /\ customers = CustomerQuery(StoreFilter(profile))
    /\ cart = << >>
    /\ selectedCustomer = NoCustomer
    /\ paymentMethod = "cash"
    /\ loading = FALSE
    /\ saving = FALSE
    /\ sub = IdleSub
    /\ fetches = << >>
    /\ custFetches = << >>
    /\ toast = << >>
    /\ last = "mount"
    /\ db = EmptyDb
    /\ other = ThisTab

TwoTabNext ==
    \/ SwitchTab
    \/ \E i \in 1..Len(products) : AddToCart(i)
    \/ \E i \in 1..Len(cart) : IncrementQuantity(i)
    \/ CompleteSale
    \/ SaleInsertOkRetry
    \/ SaleItemsInsertOkRetry

TwoTabSpec == TwoTabInit /\ [][TwoTabNext]_vars

-----------------------------------------------------------------------------
(* Properties of the discount calculator, checked under HandlerSpec *)

\* what the render and handleCompleteSale compute from the current state
Subtotal == calculateSubtotal(cart)
Discount == calculateDiscount(cart, selectedCustomer)
Total == calculateTotal(cart, selectedCustomer)
Profit == calculateProfit(cart, selectedCustomer)

\* the cost of the cart: sum of buying price * quantity
Cost == SumSeq([i \in DOMAIN cart |-> cart[i].buying_price * cart[i].quantity])

\* The integer division of calculateDiscount loses nothing on the modelled
\* prices and percentages.
PercentIsExact ==
    (Subtotal * selectedCustomer.discount_percentage) % 100 = 0

\* C1: for every cart and every selected customer (or none), the total is
\* the subtotal minus the discount, the discount never exceeds the
\* subtotal, and the total is never negative.
C1_TotalNeverNegative ==
    /\ Total = Subtotal - Discount
    /\ Discount <= Subtotal
    /\ Total >= 0

\* C1 witness: after an add, a fixed discount larger than the positive
\* subtotal is capped at it
C1_Witness ==
    /\ last = "addToCart"
    /\ cart # << >>
    /\ selectedCustomer.discount_type = "fixed"
    /\ selectedCustomer.discount_fixed_amount > Subtotal
    /\ Subtotal > 0
    /\ Total = 0

\* C8: for a percentage customer with percentage P, the discount is
\* subtotal * P / 100, for every cart.
C8_PercentageDiscount ==
    selectedCustomer.discount_type = "percentage" =>
        100 * Discount = Subtotal * selectedCustomer.discount_percentage

\* C8 witness: after an add, a 10 % customer on a positive subtotal
C8_Witness ==
    /\ last = "addToCart"
    /\ selectedCustomer.discount_type = "percentage"
    /\ selectedCustomer.discount_percentage = 10
    /\ selectedCustomer.discount_fixed_amount > 0
    /\ Subtotal > 0
    /\ 10 * Discount = Subtotal

\* C9: for a fixed customer with amount F, the discount is min(F, subtotal)
\* for every cart: a fixed discount larger than the subtotal gives total 0,
\* never a negative total.
C9_FixedDiscount ==
    selectedCustomer.discount_type = "fixed" =>
        LET F == selectedCustomer.discount_fixed_amount
        IN /\ Discount <= F
           /\ Discount <= Subtotal
           /\ Discount = F \/ Discount = Subtotal
           /\ F > Subtotal => Total = 0
           /\ Total >= 0

\* C9 witness: both sides of the minimum on one customer's amount: here the
\* amount is below the subtotal and is taken in full
C9_Witness ==
    /\ last = "addToCart"
    /\ selectedCustomer.discount_type = "fixed"
    /\ selectedCustomer.discount_fixed_amount = 30
    /\ selectedCustomer.discount_percentage > 0
    /\ Subtotal > 30
    /\ Discount = 30
    /\ Total = Subtotal - 30

\* the cart of the worked example: 2 x A at 100 selling / 60 buying
IsTwoOfA ==
    /\ Len(cart) = 1
    /\ cart[1].id = "A"
    /\ cart[1].selling_price = 100
    /\ cart[1].buying_price = 60
    /\ cart[1].quantity = 2

\* C10: the profit is the sum over the lines of (selling price - buying
\* price) * quantity, minus the full discount, and is not clamped at zero:
\* 2 x A with a 250 fixed discount gives discount 200, total 0, profit -120.
C10_ProfitNotClamped ==
    /\ Profit = (Subtotal - Cost) - Discount
    /\ Profit = Total - Cost
    /\ (/\ IsTwoOfA
        /\ selectedCustomer.discount_type = "fixed"
        /\ selectedCustomer.discount_fixed_amount = 250)
          => (Discount = 200 /\ Total = 0 /\ Profit = -120)

\* C10 witness: the worked example reached by an add, its profit negative
C10_Witness ==
    /\ last = "addToCart"
    /\ IsTwoOfA
    /\ selectedCustomer.discount_type = "fixed"
    /\ selectedCustomer.discount_fixed_amount = 250
    /\ Profit = -120

-----------------------------------------------------------------------------
(* Properties of the cart manager and of the optimistic update *)

\* the in-memory stock of a product id, as the product grid shows it
StockOf(list, id) == list[FindIndex(list, id)].stock

InList(list, id) == FindIndex(list, id) # 0

\* C2: every cart line has a quantity of at least 1, and the quantity an
\* add or an increment sets does not exceed the stock the in-memory product
\* list holds for that product at the time of the operation.
C2_QuantityWithinCurrentStock ==
    [][ /\ \A k \in DOMAIN cart' : cart'[k].quantity >= 1
        /\ \A i \in DOMAIN products :
              (AddToCart(i) /\ cart' # cart) =>
                  \A k \in DOMAIN cart' :
                      cart'[k].id = products[i].id =>
                          cart'[k].quantity <= products[i].stock
        /\ \A i \in DOMAIN cart :
              (IncrementQuantity(i) /\ cart' # cart /\ InList(products, cart[i].id))
                  => cart'[i].quantity <= StockOf(products, cart[i].id)
      ]_vars

\* C3: every product of the in-memory list has a non-negative stock count,
\* also after the optimistic decrements of successful submissions.
C3_StockNonNegative ==
    \A i \in DOMAIN products : products[i].stock >= 0

\* the quantity of a product id in a submitted cart, 0 when it has no line
SoldQuantity(soldCart, id) ==
    IF InList(soldCart, id) THEN soldCart[FindIndex(soldCart, id)].quantity
    ELSE 0

\* C4 as stated: after a successful submission every product's stock is its
\* stock when the submission was started minus the quantity sold, products
\* outside the submitted cart keeping the stock they had then.
C4_StockSinceSubmissionStart ==
    [][ SaleItemsInsertOk =>
          \A i \in DOMAIN products' :
              InList(sub.products, products'[i].id) =>
                  products'[i].stock =
                      StockOf(sub.products, products'[i].id)
                        - SoldQuantity(sub.cart, products'[i].id)
      ]_vars

\* C4 as amended: the successful submission changes the product list it
\* finds when the sale_items insert returns: each product of the submitted
\* cart loses the quantity sold, every other product is unchanged.
C4_StockSinceInsertReturned ==
    [][ SaleItemsInsertOk =>
          /\ Len(products') = Len(products)
          /\ \A i \in DOMAIN products :
                /\ products'[i].id = products[i].id
                /\ products'[i].stock =
                      products[i].stock - SoldQuantity(sub.cart, products[i].id)
      ]_vars

\* C4 witness: 2 x A sold to no customer (total 200) out of a stock of 2,
\* product B untouched
C4_Witness ==
    /\ last = "saleCompleted"
    /\ toast = << Toast("success", "sale_completed", 200) >>
    /\ Len(products) = 2
    /\ products[1].id = "A" /\ products[1].stock = 0
    /\ products[2].id = "B" /\ products[2].stock = 1

\* C5: add-item on a product whose cart line already holds a quantity equal
\* to the product's stock is rejected: the cart is left as it was and the
\* insufficient-stock notification is shown.
C5_AddAtCeilingRejected ==
    [][ \A i \in DOMAIN products :
          (/\ AddToCart(i)
           /\ InList(cart, products[i].id)
           /\ cart[FindIndex(cart, products[i].id)].quantity = products[i].stock)
            => /\ cart' = cart
               /\ \E t \in DOMAIN toast' :
                     toast'[t] = Toast("error", "only_units", products[i].stock)
      ]_vars

\* C5 witness: an add was rejected on a line holding the product's stock
C5_Witness ==
    /\ last = "addToCart"
    /\ \E i \in DOMAIN products :
          /\ InList(cart, products[i].id)
          /\ products[i].stock >= 1
          /\ cart[FindIndex(cart, products[i].id)].quantity = products[i].stock
          /\ toast[1] = Toast("error", "only_units", products[i].stock)

\* C6: change-quantity by +1 is bounded by the stock of the line's product:
\* an increment that would exceed it is rejected with a notification and
\* the line is left unchanged; otherwise the line's quantity changes by
\* exactly the step and all other lines are unchanged.
C6_IncrementBounded ==
    [][ \A i \in DOMAIN cart :
          UpdateQuantity(i, 1) =>
             IF cart[i].quantity + 1 > cart[i].stock
             THEN /\ cart' = cart
                  /\ toast' = << Toast("error", "only_units", cart[i].stock) >>
             ELSE /\ cart' = [cart EXCEPT ![i].quantity = cart[i].quantity + 1]
                  /\ toast' = << >>
      ]_vars

\* C6 witness: an increment was rejected on a line at its stock
C6_Witness ==
    /\ last = "updateQuantity_rejected"
    /\ \E i \in DOMAIN cart :
          /\ cart[i].quantity = cart[i].stock
          /\ toast = << Toast("error", "only_units", cart[i].stock) >>

\* C7: change-quantity by -1 on a line of quantity 1 removes that line and
\* leaves the other lines unchanged; no line of quantity 0 or less remains.
C7_DecrementToZeroRemoves ==
    [][ /\ \A i \in DOMAIN cart :
              (DecrementQuantity(i) /\ cart[i].quantity = 1)
                  => cart' = RemoveAt(cart, i)
        /\ \A k \in DOMAIN cart' : cart'[k].quantity >= 1
      ]_vars

\* C7 witness: a decrement has just removed a line and left the other one
C7_Witness ==
    /\ last = "updateQuantity_removed"
    /\ Len(cart) = 1
    /\ cart[1].quantity >= 1

-----------------------------------------------------------------------------
(* Properties of the transaction submitter *)

\* the rows of sale_items referencing a sale id
ItemsOf(saleId) ==
    LET refs(r) == r.sale_id = saleId
    IN SelectSeq(db.sale_items, refs)

\* C11: when both the sales insert and the sale_items insert have
\* succeeded, the session ends with an empty cart, no selected customer and
\* the payment method back at cash, and no catalog re-fetch is issued.
C11_SuccessResetsSession ==
    [][ last' = "saleCompleted" =>
          /\ cart' = << >>
          /\ selectedCustomer' = NoCustomer
          /\ paymentMethod' = "cash"
          /\ fetches' = fetches
          /\ custFetches' = custFetches
          /\ loading' = loading
          /\ saving' = FALSE
          /\ sub'.pc = "idle"
      ]_vars

\* C11 witness: a card sale to a customer has completed: both rows are
\* stored, and the session holds no cart, no customer, cash, and no query
C11_Witness ==
    /\ last = "saleCompleted"
    /\ Len(db.sales) = 1
    /\ db.sales[1].customer_id # "null"
    /\ db.sales[1].payment_method = "card"
    /\ ItemsOf(db.sales[1].id) # << >>
    /\ cart = << >>
    /\ selectedCustomer = NoCustomer
    /\ paymentMethod = "cash"
    /\ fetches = << >>
    /\ ~loading

\* C12: if the sales insert or the sale_items insert fails, a failure
\* notification is shown, a catalog re-fetch is issued, no optimistic stock
\* decrement is applied, the cart and the selected customer are left as
\* they were, and neither insert is issued again by the handler.
C12_FailureKeepsCart ==
    [][ last' = "saleFailed" =>
          /\ toast' = << Toast("error", "failed_to_complete_sale", 0) >>
          /\ fetches' = Append(fetches, StoreFilter(sub.profile))
          /\ loading'
          /\ products' = products
          /\ cart' = cart
          /\ selectedCustomer' = selectedCustomer
          /\ paymentMethod' = paymentMethod
          /\ db' = db
          /\ sub'.pc = "idle"
          /\ saving' = FALSE
      ]_vars

\* C12 witness: the sale_items insert of a sale to a customer has failed:
\* the cart and the customer are still there, a product query is in flight
C12_Witness ==
    /\ last = "saleFailed"
    /\ Len(db.sales) = 1
    /\ ItemsOf(db.sales[1].id) = << >>
    /\ cart # << >>
    /\ selectedCustomer # NoCustomer
    /\ db.sales[1].customer_id = selectedCustomer.id
    /\ Len(fetches) = 1
    /\ loading
    /\ ~saving

\* the ids of the stored sales rows
SaleIds(d) == {d.sales[k].id : k \in DOMAIN d.sales}

\* C13: when the sales insert has succeeded and the sale_items insert then
\* fails, the sales row stays stored with no sale_items row referencing it
\* (no step deletes or changes a stored row), and a reattempt inserts a
\* further sales row under a new id, to which alone its items refer.
C13_OrphanSaleStays ==
    [][ /\ Len(db'.sales) >= Len(db.sales)
        /\ SubSeq(db'.sales, 1, Len(db.sales)) = db.sales
        /\ (last' = "saleFailed" /\ sub.pc = "awaitItems") =>
              /\ db' = db
              /\ sub.saleId \in SaleIds(db)
              /\ ItemsOf(sub.saleId) = << >>
        /\ last' = "saleInsertOk" =>
              /\ Len(db'.sales) = Len(db.sales) + 1
              /\ db'.sales[Len(db'.sales)].id \notin SaleIds(db)
        /\ \A k \in (Len(db.sale_items) + 1)..Len(db'.sale_items) :
              db'.sale_items[k].sale_id = sub.saleId
      ]_vars

\* C13 witness: the reattempt of a failed submission has completed: two
\* sales rows of the same content, the first without items
C13_Witness ==
    /\ last = "saleCompleted"
    /\ Len(db.sales) = 2
    /\ ItemsOf(db.sales[1].id) = << >>
    /\ ItemsOf(db.sales[2].id) # << >>
    /\ db.sales[2] = [db.sales[1] EXCEPT !.id = db.sales[2].id]
    /\ db.sales[2].id # db.sales[1].id

\* C14: handleCompleteSale called with an empty cart, or when no store id
\* can be resolved, issues no insert and no query, shows an error
\* notification, and leaves the cart, the customer selection and the product
\* list unchanged.
C14_RejectedSubmissionWritesNothing ==
    [][ (CompleteSaleCall
           /\ (cart = << >> \/ ResolveStoreId(profile, cart) = "none")) =>
          /\ db' = db
          /\ sub' = sub
          /\ sub.pc = "idle"
          /\ saving' = saving
          /\ fetches' = fetches
          /\ custFetches' = custFetches
          /\ Len(toast') = 1
          /\ toast'[1].type = "error"
          /\ cart' = cart
          /\ selectedCustomer' = selectedCustomer
          /\ products' = products
      ]_vars

\* C14 witness: a cart with a line and a customer was submitted before the
\* operator's profile was there: nothing is in flight, nothing was written
C14_Witness ==
    /\ last = "completeSale_noStore"
    /\ toast = << Toast("error", "store_not_found", 0) >>
    /\ cart # << >>
    /\ selectedCustomer # NoCustomer
    /\ sub = IdleSub
    /\ ~saving
    /\ db = EmptyDb
    /\ fetches = << >>

\* the empty cart submitted: the other rejected call of C14
C14_EmptyCartRejected ==
    /\ last = "completeSale_emptyCart"
    /\ toast = << Toast("error", "cart_is_empty", 0) >>
    /\ cart = << >>
    /\ sub = IdleSub
    /\ db = EmptyDb

\* the sales row stored last
NewestSale(d) == d.sales[Len(d.sales)]

\* C17: every sales row written by a submission carries original amount =
\* subtotal of the submitted cart, discount amount = the computed discount,
\* total amount = original amount - discount amount, profit = the computed
\* profit, the payment method chosen and the customer selected at the click
\* (null when none), and the operator's id.
C17_SaleRowContent ==
    [][ /\ last' = "completeSale" =>
              /\ sub'.cart = cart
              /\ sub'.customer = selectedCustomer
              /\ sub'.payment = paymentMethod
              /\ sub'.profile = profile
              /\ profile # NoProfile
        /\ db'.sales # db.sales =>
              LET row == NewestSale(db')
              IN /\ last' = "saleInsertOk"
                 /\ row.original_amount = calculateSubtotal(sub.cart)
                 /\ row.discount_amount = calculateDiscount(sub.cart, sub.customer)
                 /\ row.total_amount = row.original_amount - row.discount_amount
                 /\ row.profit = calculateProfit(sub.cart, sub.customer)
                 /\ row.payment_method = sub.payment
                 /\ row.customer_id =
                       (IF sub.customer = NoCustomer THEN "null"
                        ELSE sub.customer.id)
                 /\ row.sold_by = sub.profile.id
                 /\ row.sold_by # "none"
      ]_vars

\* C17 witness: the owner's card sale of 2 x A to the 10 % customer c1 is
\* stored: 200 before discount, 20 off, 180 to pay, profit 80 - 20
C17_Witness ==
    /\ last = "saleInsertOk"
    /\ Len(db.sales) = 1
    /\ db.sales[1].original_amount = 200
    /\ db.sales[1].discount_amount = 20
    /\ db.sales[1].total_amount = 180
    /\ db.sales[1].profit = 60
    /\ db.sales[1].payment_method = "card"
    /\ db.sales[1].customer_id = "c1"
    /\ db.sales[1].sold_by = "u1"

\* C18: of two sessions that loaded the same catalog neither observes the
\* other's sale: an event of one tab leaves the other tab's state as it
\* is, an add is decided on the tab's own list and cart whatever the
\* backend holds, and a returned submission takes the sold quantities off
\* the tab's own list alone.  (That both can thereby sell the same last
\* unit is the state of C18_Witness.)
C18_TabsUnaware ==
    [][ /\ last' # "switchTab" => other' = other
        /\ last' = "switchTab" => (db' = db /\ other' = ThisTab)
        /\ \A i \in DOMAIN products :
              AddToCart(i) =>
                 LET e == FindIndex(cart, products[i].id)
                 IN cart' =
                      IF e = 0 THEN Append(cart, CartItemOf(products[i]))
                      ELSE IF cart[e].quantity >= products[i].stock THEN cart
                      ELSE [cart EXCEPT ![e].quantity = cart[e].quantity + 1]
        /\ last' = "saleCompleted" =>
              /\ Len(products') = Len(products)
              /\ \A i \in DOMAIN products :
                    products'[i].stock =
                       products[i].stock - SoldQuantity(sub.cart, products[i].id)
              /\ db'.sale_items =
                    db.sale_items \o SaleItemRows(sub.saleId, sub.cart)
      ]_vars

\* C18 witness: both tabs loaded B with its only unit, and each has sold
\* it: two sales of one B are stored, and each tab's list shows B at 0
C18_Witness ==
    /\ last = "saleCompleted"
    /\ Len(db.sales) = 2
    /\ Len(db.sale_items) = 2
    /\ \A k \in 1..2 :
          /\ db.sale_items[k].sale_id = db.sales[k].id
          /\ db.sale_items[k].product_id = "B"
          /\ db.sale_items[k].quantity = 1
    /\ SoldInBackend("B") = 2
    /\ InList(products, "B") /\ StockOf(products, "B") = 0
    /\ InList(other.products, "B") /\ StockOf(other.products, "B") = 0
    /\ other.sub.pc = "idle"

\* C19: within one submission the sale_items insert is issued only after
\* the sales insert has returned a row with an id, and the optimistic stock
\* decrement, the success notification and the clearing of the cart happen
\* only after the sale_items insert has succeeded.
C19_SubmissionStepsOrdered ==
    [][ /\ (sub.pc # "awaitItems" /\ sub'.pc = "awaitItems") =>
              /\ sub.pc = "awaitSale"
              /\ sub'.saleId \in SaleIds(db')
              /\ sub'.saleId \notin SaleIds(db)
              /\ db'.sale_items = db.sale_items
        /\ db'.sale_items # db.sale_items =>
              /\ sub.pc = "awaitItems"
              /\ sub.saleId \in SaleIds(db)
        /\ products' # products =>
              \/ last' = "fetchProductsOk"
              \/ /\ last' = "saleCompleted"
                 /\ sub.pc = "awaitItems"
                 /\ db'.sale_items =
                       db.sale_items \o SaleItemRows(sub.saleId, sub.cart)
        /\ (\E t \in DOMAIN toast' : toast'[t].msg = "sale_completed") =>
              /\ last' = "saleCompleted"
              /\ sub.pc = "awaitItems"
              /\ db'.sale_items # db.sale_items
        /\ (sub.pc # "idle" /\ sub'.pc # "idle") =>
              (cart' = << >> => cart = << >>)
      ]_vars

\* C19 witness: a submission has run through its three steps: the sales
\* row, then its items, then the decrement of A from 2 to 0 and the reset
C19_Witness ==
    /\ last = "saleCompleted"
    /\ Len(db.sales) = 1
    /\ Len(ItemsOf(db.sales[1].id)) = 1
    /\ db.sale_items[1].product_id = "A"
    /\ db.sale_items[1].quantity = 2
    /\ InList(products, "A")
    /\ StockOf(products, "A") = 0
    /\ toast = << Toast("success", "sale_completed", 200) >>
    /\ cart = << >>
    /\ sub.pc = "idle"

\* C20: a submission writes exactly one sale_items row per cart line, each
\* referencing the id returned by that submission's sales insert, with the
\* line's quantity, selling price and buying price, subtotal = selling
\* price * quantity and profit = (selling price - buying price) * quantity.
C20_SaleItemRowPerLine ==
    [][ db'.sale_items # db.sale_items =>
          LET n == Len(db.sale_items)
              c == sub.cart
          IN /\ last' = "saleCompleted"
             /\ Len(db'.sale_items) = n + Len(c)
             /\ SubSeq(db'.sale_items, 1, n) = db.sale_items
             /\ sub.saleId = NewestSale(db).id
             /\ ItemsOf(sub.saleId) = << >>
             /\ \A i \in DOMAIN c :
                   LET r == db'.sale_items[n + i]
                   IN /\ r.sale_id = sub.saleId
                      /\ r.product_id = c[i].id
                      /\ r.quantity = c[i].quantity
                      /\ r.price_at_sale = c[i].selling_price
                      /\ r.cost_at_sale = c[i].buying_price
                      /\ r.subtotal = c[i].selling_price * c[i].quantity
                      /\ r.profit =
                            (c[i].selling_price - c[i].buying_price) * c[i].quantity
             /\ \A i, j \in DOMAIN c : c[i].id = c[j].id => i = j
      ]_vars

\* C20 witness: 2 x A and 1 x B sold in one submission: two rows for sale 1,
\* the second with the negative margin of B
C20_Witness ==
    /\ last = "saleCompleted"
    /\ db.sale_items =
          << [sale_id |-> 1, product_id |-> "A", quantity |-> 2,
              price_at_sale |-> 100, cost_at_sale |-> 60, subtotal |-> 200,
              profit |-> 80],
             [sale_id |-> 1, product_id |-> "B", quantity |-> 1,
              price_at_sale |-> 50, cost_at_sale |-> 70, subtotal |-> 50,
              profit |-> -20] >>
    /\ db.sales[1].id = 1

\* C21: the store recorded on a sales row is the operator's assigned store
\* for a receptionist and the store of the first cart line for an owner,
\* whatever stores the other cart lines belong to.
C21_SaleStore ==
    [][ /\ last' = "completeSale" =>
              sub'.storeId = (IF profile.role = "owner" THEN cart[1].store_id
                              ELSE profile.store_id)
        /\ db'.sales # db.sales =>
              /\ NewestSale(db').store_id = sub.storeId
              /\ NewestSale(db').store_id =
                    (IF sub.profile.role = "owner" THEN sub.cart[1].store_id
                     ELSE sub.profile.store_id)
      ]_vars

\* C21 witness: the owner's sale of B (store s2) and then A (store s1) in
\* one cart is stored under s2, the store of the first line
C21_Witness ==
    /\ last = "saleInsertOk"
    /\ sub.profile.role = "owner"
    /\ Len(sub.cart) = 2
    /\ sub.cart[1].id = "B" /\ sub.cart[1].store_id = "s2"
    /\ sub.cart[2].id = "A" /\ sub.cart[2].store_id = "s1"
    /\ NewestSale(db).store_id = "s2"

\* C22: add-item on a product not yet in the cart appends one line of
\* quantity 1 and leaves the existing lines unchanged; add-item on a product
\* already in the cart below the product's stock raises that line's quantity
\* by exactly 1 and changes nothing else.
C22_AddFrame ==
    [][ \A i \in DOMAIN products :
          AddToCart(i) =>
             LET e == FindIndex(cart, products[i].id)
             IN /\ e = 0 =>
                      /\ Len(cart') = Len(cart) + 1
                      /\ SubSeq(cart', 1, Len(cart)) = cart
                      /\ cart'[Len(cart')].id = products[i].id
                      /\ cart'[Len(cart')].quantity = 1
                      /\ cart'[Len(cart')].stock = products[i].stock
                /\ (e # 0 /\ cart[e].quantity < products[i].stock) =>
                      cart' = [cart EXCEPT ![e].quantity = cart[e].quantity + 1]
      ]_vars

\* C22 witness: an add has been accepted on a cart of two lines, the first
\* of quantity 2, the second of quantity 1
C22_Witness ==
    /\ last = "addToCart"
    /\ toast = << Toast("success", "added_to_cart", 0) >>
    /\ Len(cart) = 2
    /\ cart[1].quantity = 2
    /\ cart[2].quantity = 1

\* the sum of a field over the sale_items rows of a sale
ItemsSubtotal(saleId) ==
    SumSeq([k \in DOMAIN ItemsOf(saleId) |-> ItemsOf(saleId)[k].subtotal])

ItemsProfit(saleId) ==
    SumSeq([k \in DOMAIN ItemsOf(saleId) |-> ItemsOf(saleId)[k].profit])

\* C23: for every stored sale whose item rows were written, the sum of the
\* item subtotals is the sale's original amount, and the sum of the item
\* profits minus the sale's discount amount is the sale's profit.
C23_ItemsAddUpToSale ==
    \A k \in DOMAIN db.sales :
        LET sale == db.sales[k]
        IN ItemsOf(sale.id) # << >> =>
              /\ ItemsSubtotal(sale.id) = sale.original_amount
              /\ ItemsProfit(sale.id) - sale.discount_amount = sale.profit

\* C23 witness: 2 x A and 1 x B sold to the 10 % customer: items of 200 and
\* 50 under a sale of 250, profits 80 and -20 less 25 discount under 35
C23_Witness ==
    /\ last = "saleCompleted"
    /\ Len(db.sales) = 1
    /\ Len(ItemsOf(db.sales[1].id)) = 2
    /\ db.sales[1].original_amount = 250
    /\ db.sales[1].discount_amount = 25
    /\ db.sales[1].profit = 35
    /\ ItemsSubtotal(db.sales[1].id) = 250
    /\ ItemsProfit(db.sales[1].id) = 60

\* C24: the sales row, the sale_items rows and the optimistic decrement of
\* a submission are computed from the cart as it was when the button was
\* clicked: cart events handled while the inserts are awaited change none
\* of them, and the success path empties the cart whatever it holds by
\* then, so lines added meanwhile are dropped unsold.
C24_SubmissionUsesCartAtClick ==
    [][ /\ last' = "completeSale" => sub'.cart = cart
        /\ (sub.pc # "idle" /\ sub'.pc # "idle") =>
              /\ sub'.cart = sub.cart
              /\ sub'.customer = sub.customer
              /\ db'.sale_items = db.sale_items
        /\ db'.sales # db.sales =>
              /\ NewestSale(db').original_amount = calculateSubtotal(sub.cart)
              /\ NewestSale(db').total_amount =
                    calculateTotal(sub.cart, sub.customer)
        /\ last' = "saleCompleted" =>
              /\ db'.sale_items =
                    db.sale_items \o SaleItemRows(sub.saleId, sub.cart)
              /\ Len(products') = Len(products)
              /\ \A i \in DOMAIN products :
                    products'[i].stock =
                       products[i].stock - SoldQuantity(sub.cart, products[i].id)
              /\ cart' = << >>
      ]_vars

\* C24 witness: while the sale_items insert of a submitted cart is awaited,
\* the cart has got a further line; the stored sales row is that of the
\* submitted cart
C24_Witness ==
    /\ sub.pc = "awaitItems"
    /\ sub.events = 1
    /\ Len(cart) = Len(sub.cart) + 1
    /\ SubSeq(cart, 1, Len(sub.cart)) = sub.cart
    /\ NewestSale(db).id = sub.saleId
    /\ NewestSale(db).original_amount = calculateSubtotal(sub.cart)
    /\ calculateSubtotal(cart) > calculateSubtotal(sub.cart)

\* C25: at most one submission is in flight per session: handleCompleteSale
\* starts only while saving is false, saving is true exactly while a
\* submission awaits an insert, and a submission stores at most one sales
\* row, so no cart is stored twice by overlapping submissions.
C25_OneSubmissionInFlight ==
    [][ /\ last' = "completeSale" =>
              /\ ~saving
              /\ sub.pc = "idle"
              /\ saving'
              /\ sub'.pc = "awaitSale"
        /\ db'.sales # db.sales =>
              /\ saving
              /\ sub.pc = "awaitSale"
              /\ sub'.pc = "awaitItems"
              /\ Len(db'.sales) = Len(db.sales) + 1
        /\ saving' = (sub'.pc # "idle")
      ]_vars

\* C25 witness: a cart whose first submission failed after its sales row
\* was stored is submitted again: saving is true, one insert is awaited
C25_Witness ==
    /\ last = "completeSale"
    /\ saving
    /\ sub.pc = "awaitSale"
    /\ cart # << >>
    /\ Len(db.sales) = 1
    /\ ItemsOf(db.sales[1].id) = << >>
    /\ db.sales[1].original_amount = calculateSubtotal(sub.cart)

\* C26: every handleCompleteSale call that sets saving to true sets it back
\* to false: whenever saving is true it is false again later, the steps
\* that end a submission (success, failure of either insert) leave it
\* false, the store-not-found return leaves it false, and the empty-cart
\* return does not touch it.
C26_SavingIsReset ==
    /\ saving ~> ~saving
    /\ [][ /\ last' \in {"saleCompleted", "saleFailed"} =>
                 (saving /\ ~saving')
           /\ last' = "completeSale_noStore" => ~saving'
           /\ last' = "completeSale_emptyCart" =>
                 (~saving /\ ~saving' /\ sub' = sub)
         ]_vars

\* C26 witness: a submission has failed and saving is false again, the cart
\* still there
C26_Witness ==
    /\ last = "saleFailed"
    /\ ~saving
    /\ sub.pc = "idle"
    /\ cart # << >>
    /\ loading

-----------------------------------------------------------------------------
(* Properties of the catalog loader *)

\* C15: when a product fetch or a customer fetch fails, a user-visible
\* notification is shown and the lists are left as they were; when a fetch
\* succeeds the list is replaced by the rows fetched.
C15_FetchFailureNotifies ==
    [][ /\ last' \in {"fetchProductsError", "fetchCustomersError"} =>
              /\ toast' # << >>
              /\ \A t \in DOMAIN toast' : toast'[t].type = "error"
              /\ products' = products
              /\ customers' = customers
        /\ last' = "fetchProductsOk" =>
              /\ \E stock \in BackendStocks :
                    products' = ProductQuery(fetches[1], stock)
              /\ customers' = customers
        /\ last' = "fetchCustomersOk" =>
              /\ customers' = CustomerQuery(custFetches[1])
              /\ products' = products
      ]_vars

\* all rows of a list belong to one store
AllOfStore(list, store) == \A i \in DOMAIN list : list[i].store_id = store

\* C16: for a receptionist, once the catalog loads issued have returned,
\* every product and every customer of the in-memory lists belongs to the
\* receptionist's store.
C16_ListsScopedToStore ==
    (/\ profile.role = "receptionist"
     /\ fetches = << >>
     /\ custFetches = << >>)
        => /\ AllOfStore(products, profile.store_id)
           /\ AllOfStore(customers, profile.store_id)

\* the product ids of the sale_items rows of the sales row stored last
SoldIds == {db.sale_items[k].product_id : k \in DOMAIN db.sale_items}

\* C27, first part: when two product queries overlap, the list holds the
\* result of the query started last once both have returned, whatever
\* order the responses arrive in.
C27_MostRecentFetchWins ==
    [][ (/\ last = "fetchProductsOk"
         /\ last' = "fetchProductsOk"
         /\ fetches' = << >>) =>
            \E stock \in BackendStocks :
                products' = ProductQuery(StoreFilter(profile), stock)
      ]_vars

\* C27, second part: the response of a query that was under way when a
\* sale completed does not put the stock of a sold product back above the
\* optimistically decremented count.
C27_LateResponseKeepsDecrement ==
    [][ (/\ last = "saleCompleted"
         /\ fetches # << >>
         /\ last' = "fetchProductsOk") =>
            \A id \in SoldIds :
                (InList(products, id) /\ InList(products', id)) =>
                    StockOf(products', id) <= StockOf(products, id)
      ]_vars

\* C27: when two catalog fetches overlap, the product list ends up holding
\* the result of the most recently started fetch, whatever order the
\* responses arrive in, and a late response never overwrites the optimistic
\* stock decrement of a sale that completed after that fetch started.
C27_OverlappingFetches ==
    /\ C27_MostRecentFetchWins
    /\ C27_LateResponseKeepsDecrement

\* the store of the sales row a sale_items row points to
StoreOfSale(saleId) ==
    LET k == CHOOSE k \in DOMAIN db.sales : db.sales[k].id = saleId
    IN db.sales[k].store_id

\* C28: every sale_items row written by a submission references a product
\* that belongs to the store recorded on its sales row.
C28_ItemsOfSaleStore ==
    \A k \in DOMAIN db.sale_items :
        LET row == db.sale_items[k]
        IN row.sale_id \in SaleIds(db) =>
              ProductRow(row.product_id, 0).store_id = StoreOfSale(row.sale_id)

\* C29: the cart never holds two lines for the same product id.
C29_CartIdsDistinct ==
    \A i, j \in DOMAIN cart : cart[i].id = cart[j].id => i = j

\* C29 witness: with both products in the cart, an add on the product of
\* the second line has raised that line to quantity 2
C29_Witness ==
    /\ last = "addToCart"
    /\ Len(cart) = 2
    /\ cart[1].quantity = 1
    /\ cart[2].quantity = 2

\* C30: the "Added to cart" notification is raised only by an add that
\* changed the cart; a rejected add raises the insufficient-stock
\* notification and no success notification.
C30_SuccessOnlyWhenAdded ==
    [][ \A i \in DOMAIN products :
          AddToCart(i) =>
             /\ (\E t \in DOMAIN toast' : toast'[t].msg = "added_to_cart")
                   => cart' # cart
             /\ cart' = cart =>
                   /\ \E t \in DOMAIN toast' : toast'[t].msg = "only_units"
                   /\ \A t \in DOMAIN toast' : toast'[t].type # "success"
      ]_vars

====
